---- MODULE Spec2Model ----
(***************************************************************************)
(* A model of lens_correction/meta_to_collection.py: MetaToCollection      *)
(* reads a TEMCA metafile, indexes the tiles by raster position, resolves  *)
(* every match record of every tile to a neighbouring tile and writes the  *)
(* list of point-match samples to the output file.                         *)
(*                                                                         *)
(* Python values are modelled as follows.  None is the empty sequence and  *)
(* any other value v of an optional place is <<v>>.  A str that the code   *)
(* edits (img_path) is a sequence of one-character strings; a str that is  *)
(* only built and compared (a dictionary key, a message) is a string.  A   *)
(* dict is a function on its keys, a missing key is a key outside DOMAIN.  *)
(* An exception that leaves process is recorded in error and pc = "error". *)
(*                                                                         *)
(* The parts of the metafile that process reads only once are drawn when   *)
(* the code reads them: the tile list at json.load, the matcher list of a  *)
(* tile match by match as the loop iterates it, the calibration values     *)
(* when the output is assembled.  The grid functions are also modelled on  *)
(* their own (SpecGrid), on tile records that carry their matcher lists.   *)
(***************************************************************************)
EXTENDS Integers, Sequences, FiniteSets, TLC

\* ------------------------------------------------------------- bounds
\* tiles in the metafile
MaxTiles == 2
\* largest raster column of a tile
MaxCol == 1
\* match records in the metafile (over all tiles)
MaxMatches == 2
\* points in one coordinate array of a match record
MaxPts == 1

\* ------------------------------------------------------ program constants
\* class Edge(IntEnum)
INVALID == 0
CENTER == 1
LEFT == 2
TOP == 3
RIGHT == 4
\* the match_quality flag: no matches are possible for this tile edge
NO_MATCH == -1

None == <<>>
Some(v) == <<v>>

directory == "D:/data/lens_correction8/000000/0"
session_id == "20190215"
TIF == <<".", "t", "i", "f">>

\* ------------------------------------------------------------- inputs
\* what the directory holds for the glob _meta*.* and json.load: no metafile, one
\* that is not JSON, one without a top-level block, a metafile whose matches have
\* coordinate arrays of one length ("ok"), one whose pY arrays are a point short
DamagedMetaFiles == {"absent", "not_json", "no_metadata_block", "no_data_block"}
MetaFiles == DamagedMetaFiles \cup {"ok", "ragged"}

\* raster rows: the first row and one below it (the code only tests row > 0)
Rows == {0, 1}
Cells == {<<c, r>> : c \in 0..MaxCol, r \in Rows}
\* the i-th image of a metafile: "t1.tif", "t2", "t3.tif", ...
image_path(i) == <<"t", ToString(i)>> \o (IF i % 2 = 1 THEN TIF ELSE <<>>)
\* the tile lists: the i-th tile is the i-th image, at any cell of the grid
DataSet ==
    {[i \in 1..n |-> [img_path |-> image_path(i),
                       raster_pos |-> cell[i],
                       stage_pos |-> <<10 * i, 20>>]] :
        n \in 0..MaxTiles, cell \in [1..MaxTiles -> Cells]}

Pts(n) == [i \in 1..n |-> i]
\* the coordinate arrays of the match records of a metafile
PointArrays(file) ==
    IF file = "ragged"
    THEN [pX |-> Pts(MaxPts), pY |-> Pts(MaxPts - 1), qX |-> Pts(MaxPts), qY |-> Pts(MaxPts)]
    ELSE [pX |-> Pts(MaxPts), pY |-> Pts(MaxPts), qX |-> Pts(MaxPts), qY |-> Pts(MaxPts)]
\* 'position' of a match record: null, an Edge value, or another integer
Positions == {None} \cup {Some(d) : d \in 0..5}
Qualities == {NO_MATCH, 1}
\* a match record, with or without the 'position' key
Matches(file) ==
    LET a == PointArrays(file)
    IN {[position |-> d, match_quality |-> mq, pX |-> a.pX, pY |-> a.pY,
         qX |-> a.qX, qY |-> a.qY] : d \in Positions, mq \in Qualities}
       \cup {[match_quality |-> 1, pX |-> a.pX, pY |-> a.pY, qX |-> a.qX, qY |-> a.qY]}

\* ------------------------------------------------------------- state
VARIABLES
    pc,                \* where process is
    meta_file,         \* what the directory holds
    data,              \* args.data
    trows, tcols,      \* args.trows, args.tcols
    raster_pos_lookup, \* args.raster_pos_lookup
    index,             \* enumerate(data): the tile of the outer loop
    mi,                \* matches of this tile's matcher already iterated
    nread,             \* matches iterated over all tiles
    position,          \* local position      (of the matcher loop's body:
    match_quality,     \* local match_quality  kept while the loop of a tile
    neighbor,          \* local neighbor       runs)
    samples,           \* local samples
    tilespecs,         \* local tilespecs
    output_file,       \* the file args.output_file: times opened, content
    error,             \* the exception that left process
    subscript,         \* history: what the last match's resolver call subscripted
    origin             \* history: <<tile, match, position>> of every sample

vars == <<pc, meta_file, data, trows, tcols, raster_pos_lookup, index, mi, nread,
          position, match_quality, neighbor, samples, tilespecs, output_file,
          error, subscript, origin>>

\* an exception: its type, its argument, the source line that raised it
NoError == [type |-> "none", arg |-> <<>>, line |-> 0]
KeyError(k, line) == [type |-> "KeyError", arg |-> <<k>>, line |-> line]

\* ------------------------------------------------------------ helpers
\* str.replace(old, new): every non-overlapping occurrence, left to right
RECURSIVE replace(_, _, _)
replace(s, old, new) ==
    IF Len(s) < Len(old) THEN s
    ELSE IF SubSeq(s, 1, Len(old)) = old
         THEN new \o replace(SubSeq(s, Len(old) + 1, Len(s)), old, new)
         ELSE <<Head(s)>> \o replace(Tail(s), old, new)

\* the identifier of a tile: pId.replace(".tif", "")
munge(img_path) == replace(img_path, TIF, <<>>)

\* str(col) + "_" + str(row)
raster_key(col, row) == ToString(col) \o "_" \o ToString(row)

max_of(S) == CHOOSE m \in S : \A x \in S : x <= m

\* args.raster_pos_lookup[key] at a source line: the tile, or KeyError
lookup_item(args, key, line) ==
    IF key \in DOMAIN args.raster_pos_lookup
    THEN [raised |-> FALSE, value |-> Some(args.raster_pos_lookup[key]),
          key |-> Some(key), line |-> line]
    ELSE [raised |-> TRUE, value |-> None, key |-> Some(key), line |-> line]

\* return None, and falling off the end of the function
return_none == [raised |-> FALSE, value |-> None, key |-> None, line |-> 0]

\* tile_from_raster_pos with RIGHT tested as col <= args.tcols
tile_from_raster_pos_inclusive(args, col, row, direction) ==
    IF direction = None
    THEN lookup_item(args, raster_key(col, row), 39)
    ELSE IF direction = Some(LEFT)
    THEN IF col > 0 THEN lookup_item(args, raster_key(col - 1, row), 42) ELSE return_none
    ELSE IF direction = Some(RIGHT)
    THEN IF col <= args.tcols THEN lookup_item(args, raster_key(col + 1, row), 47)
         ELSE return_none
    ELSE IF direction = Some(TOP)
    THEN IF row > 0 THEN lookup_item(args, raster_key(col, row - 1), 52) ELSE return_none
    ELSE return_none

\* tile_from_raster_pos with LEFT subscripting col instead of col - 1
tile_from_raster_pos_left_self(args, col, row, direction) ==
    IF direction = None
    THEN lookup_item(args, raster_key(col, row), 39)
    ELSE IF direction = Some(LEFT)
    THEN IF col > 0 THEN lookup_item(args, raster_key(col, row), 42) ELSE return_none
    ELSE IF direction = Some(RIGHT)
    THEN IF col < args.tcols THEN lookup_item(args, raster_key(col + 1, row), 47)
         ELSE return_none
    ELSE IF direction = Some(TOP)
    THEN IF row > 0 THEN lookup_item(args, raster_key(col, row - 1), 52) ELSE return_none
    ELSE return_none

tile_from_raster_pos(args, col, row, direction) ==
    IF direction = None
    THEN lookup_item(args, raster_key(col, row), 39)
    ELSE IF direction = Some(LEFT)
    THEN IF col > 0 THEN lookup_item(args, raster_key(col - 1, row), 42) ELSE return_none
    ELSE IF direction = Some(RIGHT)
    THEN IF col < args.tcols THEN lookup_item(args, raster_key(col + 1, row), 47)
         ELSE return_none
    ELSE IF direction = Some(TOP)
    THEN IF row > 0 THEN lookup_item(args, raster_key(col, row - 1), 52) ELSE return_none
    ELSE return_none

tile_from_tile(args, tile, direction) ==
    tile_from_raster_pos(args, tile.raster_pos[1], tile.raster_pos[2], direction)

\* the dictionary after the first n tiles of d: a later tile replaces an earlier one
RECURSIVE raster_pos_dict(_, _)
raster_pos_dict(d, n) ==
    IF n = 0 THEN <<>>
    ELSE (raster_key(d[n].raster_pos[1], d[n].raster_pos[2]) :> d[n])
         @@ raster_pos_dict(d, n - 1)

\* create_raster_pos_dict with the key built as str(row) + "_" + str(col)
create_raster_pos_dict_row_col(d) ==
    [k \in {raster_key(d[i].raster_pos[2], d[i].raster_pos[1]) : i \in 1..Len(d)} |->
        LET i == CHOOSE i \in 1..Len(d) :
                    raster_key(d[i].raster_pos[2], d[i].raster_pos[1]) = k
        IN d[i]]

create_raster_pos_dict(d) == raster_pos_dict(d, Len(d))

args == [raster_pos_lookup |-> raster_pos_lookup, tcols |-> tcols, trows |-> trows]

\* the dict appended to samples
sample(pId, qId, match) ==
    LET w == [i \in 1..Len(match.pX) |-> 1]
    IN [pId |-> pId, qId |-> qId, pGroupId |-> session_id, qGroupId |-> session_id,
        matches |-> [p |-> <<match.pX, match.pY>>, q |-> <<match.qX, match.qY>>,
                     w |-> w, match_count |-> Len(w)]]

\* samples.insert(0, ...) in place of samples.append
prepend_sample(seq, s) == <<s>> \o seq

\* samples.append
append_sample(seq, s) == Append(seq, s)

\* match_quality == 0 in place of match_quality == -1
no_match_zero(mq) == mq = 0

\* match_quality == -1
no_match_possible(mq) == mq = NO_MATCH

\* ------------------------------------------------------------ process
Init ==
    /\ pc = "start"
    /\ meta_file \in MetaFiles
    /\ data = <<>>
    /\ trows = 0
    /\ tcols = 0
    /\ raster_pos_lookup = <<>>
    /\ index = 0
    /\ mi = 0
    /\ nread = 0
    /\ position = None
    /\ match_quality = 0
    /\ neighbor = None
    /\ samples = <<>>
    /\ tilespecs = <<>>
    /\ output_file = [opened |-> 0, content |-> None]
    /\ error = NoError
    /\ subscript = None
    /\ origin = <<>>

Raise(e) ==
    /\ pc' = "error"
    /\ error' = e

\* lines 88-97: find the metafile and json.load it; any failure is re-raised
ReadMetaFile ==
    /\ pc = "start"
    /\ IF meta_file \in {"absent", "not_json"}
       THEN /\ Raise([type |-> "Exception",
                      arg |-> <<"Cannot find or parse metafile in: " \o directory>>,
                      line |-> 96])
            /\ UNCHANGED data
       ELSE /\ pc' = "loaded"
            /\ UNCHANGED <<error, data>>
    /\ UNCHANGED <<meta_file, trows, tcols, raster_pos_lookup, index, mi, nread,
                   position, match_quality, neighbor, samples, tilespecs,
                   output_file, subscript, origin>>

\* lines 99-109: the metadata and data blocks
ReadBlocks ==
    /\ pc = "loaded"
    /\ IF meta_file = "no_metadata_block"
       THEN Raise(KeyError("metadata", 99)) /\ UNCHANGED data
       ELSE IF meta_file = "no_data_block"
       THEN Raise(KeyError("data", 100)) /\ UNCHANGED data
       ELSE /\ \E d \in DataSet : data' = d
            /\ pc' = "blocks"
            /\ UNCHANGED error
    /\ UNCHANGED <<meta_file, trows, tcols, raster_pos_lookup, index, mi, nread,
                   position, match_quality, neighbor, samples, tilespecs,
                   output_file, subscript, origin>>

\* lines 112-114: max() of an empty list raises ValueError
GridBounds ==
    /\ pc = "blocks"
    /\ IF data = <<>>
       THEN /\ Raise([type |-> "ValueError", arg |-> <<"max() arg is an empty sequence">>,
                       line |-> 112])
            /\ UNCHANGED <<trows, tcols>>
       ELSE /\ trows' = max_of({data[i].raster_pos[2] : i \in 1..Len(data)})
            /\ tcols' = max_of({data[i].raster_pos[1] : i \in 1..Len(data)})
            /\ pc' = "bounds"
            /\ UNCHANGED error
    /\ UNCHANGED <<meta_file, data, raster_pos_lookup, index, mi, nread,
                   position, match_quality, neighbor, samples, tilespecs,
                   output_file, subscript, origin>>

\* lines 117-123
CreateRasterPosDict ==
    /\ pc = "bounds"
    /\ raster_pos_lookup' = create_raster_pos_dict(data)
    /\ samples' = <<>>
    /\ tilespecs' = <<>>
    /\ index' = 0
    /\ pc' = "tiles"
    /\ UNCHANGED <<meta_file, data, trows, tcols, mi, nread, position, match_quality,
                   neighbor, output_file, error, subscript, origin>>

\* lines 126-143: the next tile; its tilespec; whether it has a 'matcher'
NextTile ==
    /\ pc = "tiles"
    /\ index < Len(data)
    /\ LET tile == data[index + 1]
       IN tilespecs' = Append(tilespecs,
                              [tileId |-> munge(tile.img_path),
                               xstage |-> tile.stage_pos[1],
                               ystage |-> tile.stage_pos[2]])
    /\ \E has_matcher \in BOOLEAN :
          IF has_matcher
          THEN pc' = "matches" /\ mi' = 0 /\ UNCHANGED index
          ELSE pc' = "tiles" /\ index' = index + 1 /\ UNCHANGED mi
    /\ UNCHANGED <<meta_file, data, trows, tcols, raster_pos_lookup, nread, position,
                   match_quality, neighbor, samples, output_file, error,
                   subscript, origin>>

\* lines 144-171: one match of the tile's matcher
NextMatch(match) ==
    /\ pc = "matches"
    /\ nread < MaxMatches
    /\ nread' = nread + 1
    /\ mi' = mi + 1
    /\ LET tile == data[index + 1]
           pId == munge(tile.img_path)
       IN IF "position" \notin DOMAIN match
          THEN /\ Raise(KeyError("position", 145))
               /\ subscript' = None
               /\ UNCHANGED <<position, match_quality, neighbor, samples, origin>>
          ELSE /\ position' = match.position
               /\ match_quality' = match.match_quality
               /\ IF no_match_possible(match.match_quality)
                  THEN /\ subscript' = None
                       /\ UNCHANGED <<pc, error, neighbor, samples, origin>>
                  ELSE LET r == tile_from_tile(args, tile, match.position)
                       IN /\ subscript' = r.key
                          /\ IF r.raised
                             THEN /\ Raise(KeyError(r.key[1], r.line))
                                  /\ UNCHANGED <<neighbor, samples, origin>>
                             ELSE /\ neighbor' = r.value
                                  /\ UNCHANGED <<pc, error>>
                                  /\ IF r.value # None
                                     THEN /\ samples' = append_sample(samples,
                                                sample(pId, munge(r.value[1].img_path), match))
                                          /\ origin' = append_sample(origin, <<index, mi, match.position>>)
                                     ELSE UNCHANGED <<samples, origin>>
    /\ UNCHANGED <<meta_file, data, trows, tcols, raster_pos_lookup, index, tilespecs,
                   output_file>>

\* the matcher list is exhausted: on to the next tile.  The iterator is gone, and
\* the locals of the loop body are dead (the body assigns each before it reads it):
\* they are cleared.
EndMatcher ==
    /\ pc = "matches"
    /\ pc' = "tiles"
    /\ index' = index + 1
    /\ mi' = 0
    /\ position' = None
    /\ match_quality' = 0
    /\ neighbor' = None
    /\ subscript' = None
    /\ UNCHANGED <<meta_file, data, trows, tcols, raster_pos_lookup, nread, samples,
                   tilespecs, output_file, error, origin>>

\* BuildOutput with the output file opened before the output dict is built
BuildOutput_open_first ==
    /\ pc = "tiles"
    /\ index = Len(data)
    /\ output_file' = [opened |-> output_file.opened + 1, content |-> None]
    /\ \E has_calibration \in BOOLEAN :
          IF has_calibration
          THEN pc' = "output" /\ UNCHANGED error
          ELSE Raise(KeyError("nm_per_pix", 176))
    /\ UNCHANGED <<meta_file, data, trows, tcols, raster_pos_lookup, index, mi, nread,
                   position, match_quality, neighbor, samples, tilespecs,
                   subscript, origin>>

\* lines 173-181: the output dict needs calibration["nm_per_pix"] and ["angle"]
BuildOutput ==
    /\ pc = "tiles"
    /\ index = Len(data)
    /\ \E has_calibration \in BOOLEAN :
          IF has_calibration
          THEN pc' = "output" /\ UNCHANGED error
          ELSE Raise(KeyError("nm_per_pix", 176))
    /\ UNCHANGED <<meta_file, data, trows, tcols, raster_pos_lookup, index, mi, nread,
                   position, match_quality, neighbor, samples, tilespecs,
                   output_file, subscript, origin>>

\* lines 183-186: open(args.output_file, 'w') and json.dump
WriteOutput ==
    /\ pc = "output"
    /\ output_file' = [opened |-> output_file.opened + 1, content |-> Some(samples)]
    /\ pc' = "done"
    /\ UNCHANGED <<meta_file, data, trows, tcols, raster_pos_lookup, index, mi, nread,
                   position, match_quality, neighbor, samples, tilespecs, error,
                   subscript, origin>>

Next ==
    \/ ReadMetaFile
    \/ ReadBlocks
    \/ GridBounds
    \/ CreateRasterPosDict
    \/ NextTile
    \/ \E match \in Matches(meta_file) : NextMatch(match)
    \/ EndMatcher
    \/ BuildOutput
    \/ WriteOutput

Spec == Init /\ [][Next]_vars
\* ------------------------------------------------- the grid functions alone
\* create_raster_pos_dict, tile_from_tile and tile_from_raster_pos called in any
\* order on an args that holds a tile list and its bounds.  Here the tile records
\* are whole: a tile may have a 'matcher' list.

\* the matcher of a tile: no key, an empty list, or one match
GridMatchers ==
    {<<>>} \cup {<<m>> : m \in {m \in Matches("ok") : /\ "position" \in DOMAIN m
                                                      /\ m.position = Some(RIGHT)
                                                      /\ m.match_quality = 1}}

GridDataSet ==
    {[i \in 1..n |->
        LET tile == [img_path |-> image_path(i), raster_pos |-> cell[i],
                     stage_pos |-> <<10 * i, 20>>]
        IN IF matcher[i] = None THEN tile ELSE tile @@ [matcher |-> matcher[i][1]]] :
        n \in 1..MaxTiles, cell \in [1..MaxTiles -> Cells],
        matcher \in [1..MaxTiles -> {None} \cup {Some(ms) : ms \in GridMatchers}]}

InitGrid ==
    /\ pc = "args"
    /\ meta_file = "ok"
    /\ data \in GridDataSet
    /\ trows = max_of({data[i].raster_pos[2] : i \in 1..Len(data)})
    /\ tcols = max_of({data[i].raster_pos[1] : i \in 1..Len(data)})
    /\ raster_pos_lookup = <<>>
    /\ index = 0
    /\ mi = 0
    /\ nread = 0
    /\ position = None
    /\ match_quality = 0
    /\ neighbor = None
    /\ samples = <<>>
    /\ tilespecs = <<>>
    /\ output_file = [opened |-> 0, content |-> None]
    /\ error = NoError
    /\ subscript = None
    /\ origin = <<>>

\* lines 65-71
GridCreate ==
    /\ pc = "args"
    /\ raster_pos_lookup' = create_raster_pos_dict(data)
    /\ pc' = "indexed"
    /\ UNCHANGED <<meta_file, data, trows, tcols, index, mi, nread, position,
                   match_quality, neighbor, samples, tilespecs, output_file, error,
                   subscript, origin>>

\* what a call of a resolver leaves: the value returned, or the KeyError
GridReturn(r) ==
    /\ neighbor' = r.value
    /\ subscript' = r.key
    /\ error' = IF r.raised THEN KeyError(r.key[1], r.line) ELSE NoError
    /\ UNCHANGED <<pc, meta_file, data, trows, tcols, raster_pos_lookup, index, mi,
                   nread, match_quality, samples, tilespecs, output_file, origin>>

\* lines 57-62
GridTileFromTile(i, direction) ==
    /\ pc = "indexed"
    /\ position' = direction
    /\ GridReturn(tile_from_tile(args, data[i], direction))

\* lines 34-54
GridTileFromRasterPos(col, row, direction) ==
    /\ pc = "indexed"
    /\ position' = direction
    /\ GridReturn(tile_from_raster_pos(args, col, row, direction))

NextGrid ==
    \/ GridCreate
    \/ \E i \in 1..Len(data), d \in Positions : GridTileFromTile(i, d)
    \/ \E cell \in Cells, d \in Positions : GridTileFromRasterPos(cell[1], cell[2], d)

SpecGrid == InitGrid /\ [][NextGrid]_vars

\* ------------------------------------------------------------- claims
LTR == {Some(LEFT), Some(TOP), Some(RIGHT)}
ResolverLines == {39, 42, 47, 52}

\* a match of tile data[index + 1] has just been read: position and match_quality
\* are its values, and it was the tile's match number mi - 1
MatchRead ==
    /\ mi > 0
    /\ pc = "matches" \/ (pc = "error" /\ error.line \in ResolverLines)

\* the match just read went on to neighbor resolution
MatchResolved == MatchRead /\ match_quality # -1

Occupied(cell) == \E i \in 1..Len(data) : data[i].raster_pos = cell

\* the cell a direction points at
Adjacent(cell, d) ==
    IF d = Some(LEFT) THEN <<cell[1] - 1, cell[2]>>
    ELSE IF d = Some(RIGHT) THEN <<cell[1] + 1, cell[2]>>
    ELSE <<cell[1], cell[2] - 1>>

\* spec 4.2: LEFT exists only if column > 0, RIGHT only if column < max_column,
\* TOP only if row > 0
BoundaryTestPasses(cell, d) ==
    IF d = Some(LEFT) THEN cell[1] > 0
    ELSE IF d = Some(RIGHT) THEN cell[1] < tcols
    ELSE cell[2] > 0

\* the match just read put a sample into samples
Emitted == \E k \in 1..Len(origin) : origin[k][1] = index /\ origin[k][2] = mi - 1

UniqueRasterPos ==
    \A i, j \in 1..Len(data) : i # j => data[i].raster_pos # data[j].raster_pos

\* C1: on a sparse grid, a LEFT, TOP or RIGHT match whose boundary test passes and
\* whose adjacent cell holds no tile resolves to None and is dropped without an
\* error: process goes on with the next match.
C1_EmptyCellDiscarded ==
    (/\ MatchResolved
     /\ position \in LTR
     /\ BoundaryTestPasses(data[index + 1].raster_pos, position)
     /\ ~Occupied(Adjacent(data[index + 1].raster_pos, position)))
    => (pc = "matches" /\ error = NoError /\ ~Emitted)

\* C2: every sample has len(p.x) = len(p.y) = len(q.x) = len(q.y) = len(w) =
\* match_count.  Stated of the samples made from LEFT, TOP and RIGHT matches, the
\* directions that name a neighbor.
EqualLengths(s) ==
    /\ Len(s.matches.p[1]) = Len(s.matches.p[2])
    /\ Len(s.matches.p[1]) = Len(s.matches.q[1])
    /\ Len(s.matches.p[1]) = Len(s.matches.q[2])
    /\ Len(s.matches.p[1]) = Len(s.matches.w)
    /\ Len(s.matches.p[1]) = s.matches.match_count

C2_EqualLengths ==
    \A k \in 1..Len(samples) : origin[k][3] \in LTR => EqualLengths(samples[k])

OnBoundary(cell, d) ==
    \/ d = Some(LEFT) /\ cell[1] = 0
    \/ d = Some(TOP) /\ cell[2] = 0
    \/ d = Some(RIGHT) /\ cell[1] = tcols

GridBuilt ==
    \/ pc \in {"tiles", "matches", "output", "done"}
    \/ pc = "error" /\ error.line > 117

\* C4: for a tile at column 0 a LEFT lookup, for a tile at row 0 a TOP lookup and
\* for a tile at the largest column a RIGHT lookup return None without subscripting
\* the dictionary; a match with that direction raises nothing and adds no sample.
C4_BoundarySafe ==
    /\ GridBuilt =>
          \A i \in 1..Len(data) : \A d \in LTR :
              OnBoundary(data[i].raster_pos, d)
              => tile_from_tile(args, data[i], d) = return_none
    /\ (MatchResolved /\ OnBoundary(data[index + 1].raster_pos, position))
       => (/\ subscript = None
           /\ neighbor = None
           /\ pc = "matches"
           /\ error = NoError
           /\ ~Emitted)

\* a RIGHT match of a tile at the largest column has been resolved
C4_Witness ==
    /\ MatchResolved
    /\ position = Some(RIGHT)
    /\ data[index + 1].raster_pos[1] = tcols

C6_NoPartialOutput ==
    /\ output_file.opened <= 1
    /\ output_file.opened = 1 =>
          /\ pc = "done"
          /\ error = NoError
          /\ index = Len(data)
          /\ output_file.content = Some(samples)
    /\ pc = "error" => output_file = [opened |-> 0, content |-> None]
    /\ pc = "done" => output_file.opened = 1

\* a run failed after samples were collected
C6_Witness == pc = "error" /\ error.line = 176 /\ Len(samples) > 0

\* <<tile, match>> a precedes <<tile, match>> b
Precedes(a, b) == a[1] < b[1] \/ (a[1] = b[1] /\ a[2] < b[2])

\* C7: samples are in tile order and, within a tile, in match order: each sample
\* comes from a different match, a match that resolved to a tile is the last
\* sample, and a sample's pId is its tile's identifier; what is written is samples.
C7_InputOrder ==
    /\ Len(origin) = Len(samples)
    /\ (MatchResolved /\ pc = "matches" /\ neighbor # None)
       => (/\ Len(origin) > 0
           /\ origin[Len(origin)] = <<index, mi - 1, position>>)
    /\ \A a, b \in 1..Len(origin) : a < b => Precedes(origin[a], origin[b])
    /\ \A k \in 1..Len(origin) :
          /\ origin[k][1] + 1 \in 1..Len(data)
          /\ samples[k].pId = munge(data[origin[k][1] + 1].img_path)
    /\ pc = "done" => output_file.content = Some(samples)

\* two samples of two different tiles were written
C7_Witness ==
    /\ pc = "done"
    /\ Len(origin) = 2
    /\ origin[1][1] # origin[2][1]

\* C8: with unique raster positions, a sample made from a LEFT, RIGHT or TOP match
\* of tile T has T's identifier as pId and as qId the identifier of the tile in the
\* adjacent cell: qId names no other tile, and not T.
C8_AdjacentTile ==
    UniqueRasterPos =>
        \A k \in 1..Len(samples) :
            origin[k][3] \in LTR =>
                LET T == data[origin[k][1] + 1]
                IN /\ samples[k].pId = munge(T.img_path)
                   /\ \E i \in 1..Len(data) :
                         /\ data[i].raster_pos = Adjacent(T.raster_pos, origin[k][3])
                         /\ samples[k].qId = munge(data[i].img_path)
                   /\ \A i \in 1..Len(data) :
                         samples[k].qId = munge(data[i].img_path)
                         => /\ data[i].raster_pos = Adjacent(T.raster_pos, origin[k][3])
                            /\ i # origin[k][1] + 1

\* a TOP match gave a sample on a grid of unique raster positions
C8_Witness ==
    /\ UniqueRasterPos
    /\ \E k \in 1..Len(samples) : origin[k][3] = Some(TOP)

\* C9: every discovery or parse failure leaves process as the Exception whose
\* message names the directory.
C9_LabelledFailure ==
    (pc = "error" /\ meta_file \in DamagedMetaFiles)
    => error = [type |-> "Exception",
                arg |-> <<"Cannot find or parse metafile in: " \o directory>>,
                line |-> 96]
\* the keys of the occupied cells
OccupiedKeys == {raster_key(data[i].raster_pos[1], data[i].raster_pos[2]) : i \in 1..Len(data)}

\* C10: building the dictionary and calling the resolvers change no tile record
\* (path, raster position, stage position, matcher); the dictionary's keys are the
\* occupied cells and each key holds a tile of that cell; a resolver call changes
\* neither the dictionary nor the grid bounds.
C10_NoMutation ==
    /\ [](pc = "indexed" =>
            /\ DOMAIN raster_pos_lookup = OccupiedKeys
            /\ \A k \in DOMAIN raster_pos_lookup :
                  \E i \in 1..Len(data) :
                      /\ raster_pos_lookup[k] = data[i]
                      /\ raster_key(data[i].raster_pos[1], data[i].raster_pos[2]) = k)
    /\ [][/\ data' = data
          /\ pc = "indexed" => /\ raster_pos_lookup' = raster_pos_lookup
                               /\ tcols' = tcols
                               /\ trows' = trows]_vars

\* a resolver call returned a tile that has a matcher list
C10_Witness ==
    /\ pc = "indexed"
    /\ neighbor # None
    /\ "matcher" \in DOMAIN neighbor[1]
    /\ neighbor[1].matcher # <<>>
    /\ position = Some(TOP)
====
